---- MODULE Spec2Model ----
(***************************************************************************)
(* A model of unlanedet/utils/flatten.py (Schema, ListSchema, TupleSchema, *)
(* IdentitySchema, DictSchema, flatten_to_tuple, TracingAdapter) and of    *)
(* the command line driver tools/analysis.py.                              *)
(*                                                                         *)
(* Python values are modelled as records:                                  *)
(*   a leaf        [kind |-> "leaf", tensor, id, val]   (id: the object's  *)
(*                 identity, val: its value, tensor: isinstance of Tensor) *)
(*   a list/tuple  [kind |-> "list" / "tuple", items]                      *)
(*   a dict        [kind |-> "dict", keys, items]  keys in insertion order *)
(*   a tuple of leaves (a flattened result) is a sequence of leaves.       *)
(* A str key is the sequence of its code points, so that sorted() is the   *)
(* lexicographic order Python uses.                                        *)
(***************************************************************************)
EXTENDS Naturals, Integers, Sequences, FiniteSets, TLC

\* ------------------------------------------------------------------ bounds
\* the largest number of nodes (leaves and containers) of a flattened object
MaxNodes == 4
\* the largest number of nodes of the nested inputs of a TracingAdapter
MaxInputNodes == 3
\* the longest --tasks list of the analysis command line
MaxTasks == 3

\* ------------------------------------------------------------ Python values
Tensor1 == [kind |-> "leaf", tensor |-> TRUE, id |-> 1, val |-> "x"]
Tensor2 == [kind |-> "leaf", tensor |-> TRUE, id |-> 2, val |-> "x"]
Str1 == [kind |-> "leaf", tensor |-> FALSE, id |-> 3, val |-> "s"]
LeafValues == {Tensor1, Tensor2, Str1}
\* the leaves of the objects given to flatten_to_tuple alone
FlattenLeaves == {Tensor1, Str1}

\* the str keys "ab" and "b" (code points): "ab" < "b"
KeyAB == <<97, 98>>
KeyB == <<98>>
DictKeys == {KeyAB, KeyB}

PyList(items) == [kind |-> "list", items |-> items]
PyTuple(items) == [kind |-> "tuple", items |-> items]
PyDict(keys, items) == [kind |-> "dict", keys |-> keys, items |-> items]

\* str.__lt__: lexicographic on code points, a proper prefix is smaller
RECURSIVE StrLess(_, _)
StrLess(a, b) ==
    IF Len(b) = 0 THEN FALSE
    ELSE IF Len(a) = 0 THEN TRUE
    ELSE IF Head(a) # Head(b) THEN Head(a) < Head(b)
    ELSE StrLess(Tail(a), Tail(b))

\* sorted(keys) for a sequence of str
RECURSIVE InsertSorted(_, _)
InsertSorted(k, s) ==
    IF Len(s) = 0 THEN <<k>>
    ELSE IF StrLess(k, Head(s)) THEN <<k>> \o s
    ELSE <<Head(s)>> \o InsertSorted(k, Tail(s))

RECURSIVE SortedKeys(_)
SortedKeys(keys) ==
    IF Len(keys) = 0 THEN <<>>
    ELSE InsertSorted(Head(keys), SortedKeys(Tail(keys)))

\* obj[k] for a dict
DictGet(obj, k) ==
    obj.items[CHOOSE i \in 1..Len(obj.keys) : obj.keys[i] = k]

RECURSIVE SumSeq(_)
SumSeq(s) == IF Len(s) = 0 THEN 0 ELSE Head(s) + SumSeq(Tail(s))

\* ------------------------------------------------------------------ schemas
NoneValue == [cls |-> "None"]
IdentitySchema == [cls |-> "IdentitySchema"]
ListSchema(schemas, sizes) ==
    [cls |-> "ListSchema", schemas |-> schemas, sizes |-> sizes]
TupleSchema(schemas, sizes) ==
    [cls |-> "TupleSchema", schemas |-> schemas, sizes |-> sizes]
DictSchema(schemas, sizes, keys) ==
    [cls |-> "DictSchema", schemas |-> schemas, sizes |-> sizes, keys |-> keys]

\* a raised exception, in place of a value
Raise(exc) == [kind |-> "raise", exc |-> exc]
IsRaise(v) == v.kind = "raise"

\* Schema._concat: the values joined, and the length of each
RECURSIVE Schema_concat(_)
Schema_concat(values) ==
    IF Len(values) = 0 THEN <<(<<>>), (<<>>)>>
    ELSE LET rest == Schema_concat(Tail(values))
         IN <<Head(values) \o rest[1], <<Len(Head(values))>> \o rest[2]>>

\* values[begin:end], 0-based, end exclusive, clipped as Python slices are
PySlice(values, begin, end) ==
    LET e == IF end > Len(values) THEN Len(values) ELSE end
    IN IF begin >= e THEN <<>> ELSE SubSeq(values, begin + 1, e)

\* a faulty _split: every piece ends one value after its beginning
Schema_split_short(values, sizes) ==
    IF Len(sizes) > 0 /\ Len(values) # SumSeq(sizes)
    THEN Raise("AssertionError")
    ELSE [kind |-> "parts",
          parts |-> [k \in 1..Len(sizes) |->
                       PySlice(values, SumSeq(SubSeq(sizes, 1, k - 1)),
                               SumSeq(SubSeq(sizes, 1, k - 1)) + 1)]]

\* Schema._split: values cut into consecutive pieces of the given sizes
Schema_split(values, sizes) ==
    IF Len(sizes) > 0 /\ Len(values) # SumSeq(sizes)
    THEN Raise("AssertionError")
    ELSE [kind |-> "parts",
          parts |-> [k \in 1..Len(sizes) |->
                       PySlice(values, SumSeq(SubSeq(sizes, 1, k - 1)),
                               SumSeq(SubSeq(sizes, 1, k)))]]

RECURSIVE flatten_to_tuple(_), ListSchema_flatten(_), SchemaCall(_, _),
          ListSchema_call(_, _)

\* ListSchema.flatten: <<values, schemas, sizes>> of a sequence of objects
ListSchema_flatten(items) ==
    LET res == [k \in 1..Len(items) |-> flatten_to_tuple(items[k])]
        cat == Schema_concat([k \in 1..Len(items) |-> res[k][1]])
    IN <<cat[1], [k \in 1..Len(items) |-> res[k][2]], cat[2]>>

\* a faulty DictSchema.flatten: the keys in insertion order, not sorted
DictSchema_flatten_unsorted(obj) ==
    LET keys == obj.keys
        values == [i \in 1..Len(keys) |-> DictGet(obj, keys[i])]
        r == ListSchema_flatten(values)
    IN <<r[1], DictSchema(r[2], r[3], keys)>>

\* DictSchema.flatten: the values in the order of the sorted keys
DictSchema_flatten(obj) ==
    LET keys == SortedKeys(obj.keys)
        values == [i \in 1..Len(keys) |-> DictGet(obj, keys[i])]
        r == ListSchema_flatten(values)
    IN <<r[1], DictSchema(r[2], r[3], keys)>>

\* IdentitySchema.flatten
IdentitySchema_flatten(obj) == <<(<<obj>>), IdentitySchema>>

\* flatten_to_tuple: <<res, schema>>, the schema chosen by the object's type
flatten_to_tuple(obj) ==
    IF obj.kind = "leaf" THEN IdentitySchema_flatten(obj)
    ELSE IF obj.kind = "list"
    THEN LET r == ListSchema_flatten(obj.items) IN <<r[1], ListSchema(r[2], r[3])>>
    ELSE IF obj.kind = "tuple"
    THEN LET r == ListSchema_flatten(obj.items) IN <<r[1], TupleSchema(r[2], r[3])>>
    ELSE DictSchema_flatten(obj)

\* the first exception among the rebuilt elements, if any
FirstRaise(vals) ==
    LET bad == {k \in 1..Len(vals) : IsRaise(vals[k])}
    IN IF bad = {} THEN NoneValue
       ELSE vals[CHOOSE k \in bad : \A j \in bad : k <= j]

\* ListSchema.__call__: the sequence of rebuilt elements, or an exception
ListSchema_call(schema, values) ==
    LET split == Schema_split(values, schema.sizes)
    IN IF IsRaise(split) THEN split
       ELSE IF Len(split.parts) # Len(schema.schemas) THEN Raise("ValueError")
       ELSE LET vals == [k \in 1..Len(schema.schemas) |->
                           SchemaCall(schema.schemas[k], split.parts[k])]
            IN IF FirstRaise(vals) # NoneValue THEN FirstRaise(vals)
               ELSE [kind |-> "elements", items |-> vals]

\* IdentitySchema.__call__
IdentitySchema_call(values) ==
    IF Len(values) = 0 THEN Raise("IndexError") ELSE values[1]

\* DictSchema.__call__: dict(zip(self.keys, values))
DictSchema_call(schema, values) ==
    LET r == ListSchema_call(schema, values)
    IN IF IsRaise(r) THEN r ELSE PyDict(schema.keys, r.items)

\* TupleSchema.__call__
TupleSchema_call(schema, values) ==
    LET r == ListSchema_call(schema, values)
    IN IF IsRaise(r) THEN r ELSE PyTuple(r.items)

\* schema(values), dispatched on the schema's class
SchemaCall(schema, values) ==
    IF schema.cls = "IdentitySchema" THEN IdentitySchema_call(values)
    ELSE IF schema.cls = "ListSchema"
    THEN LET r == ListSchema_call(schema, values)
         IN IF IsRaise(r) THEN r ELSE PyList(r.items)
    ELSE IF schema.cls = "TupleSchema" THEN TupleSchema_call(schema, values)
    ELSE DictSchema_call(schema, values)

\* -------------------------------------------------- the objects to flatten
\* every sequence of distinct keys of length k (the insertion orders)
KeySeqs(k) ==
    {s \in [1..k -> DictKeys] : \A i, j \in 1..k : i # j => s[i] # s[j]}

RECURSIVE ObjsOfSize(_), ForestsOfSize(_, _)
\* the sequences of k objects with m nodes in all
ForestsOfSize(m, k) ==
    IF k = 0 THEN (IF m = 0 THEN {<<>>} ELSE {})
    ELSE UNION {{<<o>> \o rest : o \in ObjsOfSize(j),
                                 rest \in ForestsOfSize(m - j, k - 1)} :
                j \in 1..(m - k + 1)}

\* the objects with exactly n nodes
ObjsOfSize(n) ==
    IF n = 1
    THEN FlattenLeaves \cup {PyList(<<>>), PyTuple(<<>>), PyDict(<<>>, <<>>)}
    ELSE UNION {{PyList(f) : f \in ForestsOfSize(n - 1, k)}
                \cup {PyTuple(f) : f \in ForestsOfSize(n - 1, k)}
                \cup {PyDict(ks, f) : ks \in KeySeqs(k),
                                      f \in ForestsOfSize(n - 1, k)} :
                k \in 1..(n - 1)}

Objs == UNION {ObjsOfSize(n) : n \in 1..MaxNodes}

\* the nested objects given to the constructor of TracingAdapter
InputObjs == UNION {ObjsOfSize(n) : n \in 1..MaxInputNodes}

\* the same object with its dicts' entries inserted in any other order
RECURSIVE Reorderings(_), ReorderingsSeq(_)
ReorderingsSeq(items) ==
    IF Len(items) = 0 THEN {<<>>}
    ELSE {<<o>> \o rest : o \in Reorderings(Head(items)),
                          rest \in ReorderingsSeq(Tail(items))}

Reorderings(obj) ==
    IF obj.kind = "leaf" THEN {obj}
    ELSE IF obj.kind = "list" THEN {PyList(f) : f \in ReorderingsSeq(obj.items)}
    ELSE IF obj.kind = "tuple" THEN {PyTuple(f) : f \in ReorderingsSeq(obj.items)}
    ELSE LET n == Len(obj.keys)
             perms == {p \in [1..n -> 1..n] : \A i, j \in 1..n : i # j => p[i] # p[j]}
         IN {PyDict([i \in 1..n |-> obj.keys[p[i]]], [i \in 1..n |-> f[p[i]]]) :
               p \in perms, f \in ReorderingsSeq(obj.items)}

\* ------------------------------------------------------------------- state
VARIABLES
    pc,          \* the position of the run
    obj,         \* SpecFlatten: the object given to flatten_to_tuple
    obj2,        \* SpecFlatten: obj with its dicts filled in another order
    res,         \* SpecFlatten: flatten_to_tuple(obj)[0]
    schema,      \* SpecFlatten: flatten_to_tuple(obj)[1]
    res2,        \* SpecFlatten: flatten_to_tuple(obj2)[0]
    schema2,     \* SpecFlatten: flatten_to_tuple(obj2)[1]
    rebuilt,     \* SpecFlatten: schema(res)
    ctor_arg,          \* TracingAdapter: the inputs given to the constructor
    inputs,            \* TracingAdapter.inputs
    allow_non_tensor,  \* TracingAdapter.allow_non_tensor
    flattened_inputs,  \* TracingAdapter.flattened_inputs
    inputs_schema,     \* TracingAdapter.inputs_schema
    outputs_schema,    \* TracingAdapter.outputs_schema
    call,              \* the last call of TracingAdapter.forward
    first_schema,      \* the schema of the outputs of the first call of
                       \* forward that returned with outputs of tensors only
    cli_args,          \* analysis.py: args, and the checkpoint of the config
    cfg_ckpt,          \* analysis.py: cfg.train.init_checkpoint
    task_idx,          \* analysis.py: the position of the loop over args.tasks
    ran                \* analysis.py: the task functions called so far

flattenVars == <<obj, obj2, res, schema, res2, schema2, rebuilt>>
adapterVars == <<ctor_arg, inputs, allow_non_tensor, flattened_inputs,
                 inputs_schema, outputs_schema, call, first_schema>>
cliVars == <<cli_args, cfg_ckpt, task_idx, ran>>
vars == <<pc, flattenVars, adapterVars, cliVars>>

\* the variables of the flatten runs, unused
FlattenIdle ==
    /\ obj = NoneValue
    /\ obj2 = NoneValue
    /\ res = <<>>
    /\ schema = NoneValue
    /\ res2 = <<>>
    /\ schema2 = NoneValue
    /\ rebuilt = NoneValue

\* no TracingAdapter constructed
AdapterIdle ==
    /\ ctor_arg = NoneValue
    /\ inputs = NoneValue
    /\ allow_non_tensor = FALSE
    /\ flattened_inputs = <<>>
    /\ inputs_schema = NoneValue
    /\ outputs_schema = NoneValue
    /\ call = NoneValue
    /\ first_schema = NoneValue

\* analysis.py not run
CliIdle ==
    /\ cli_args = NoneValue
    /\ cfg_ckpt = "unset"
    /\ task_idx = 0
    /\ ran = <<>>

\* ------------------------------------------------- flatten and rebuild runs
InitFlatten ==
    /\ pc = "start"
    /\ obj \in Objs
    /\ obj2 \in Reorderings(obj)
    /\ res = <<>>
    /\ schema = NoneValue
    /\ res2 = <<>>
    /\ schema2 = NoneValue
    /\ rebuilt = NoneValue
    /\ AdapterIdle
    /\ CliIdle

\* res, schema = flatten_to_tuple(obj)
Flatten ==
    /\ pc = "start"
    /\ res' = flatten_to_tuple(obj)[1]
    /\ schema' = flatten_to_tuple(obj)[2]
    /\ pc' = "flattened"
    /\ UNCHANGED <<obj, obj2, res2, schema2, rebuilt, adapterVars, cliVars>>

\* res2, schema2 = flatten_to_tuple(obj2)
FlattenOther ==
    /\ pc = "flattened"
    /\ res2' = flatten_to_tuple(obj2)[1]
    /\ schema2' = flatten_to_tuple(obj2)[2]
    /\ pc' = "flattened2"
    /\ UNCHANGED <<obj, obj2, res, schema, rebuilt, adapterVars, cliVars>>

\* rebuilt = schema(res)
Rebuild ==
    /\ pc = "flattened2"
    /\ rebuilt' = SchemaCall(schema, res)
    /\ pc' = "rebuilt"
    /\ UNCHANGED <<obj, obj2, res, schema, res2, schema2, adapterVars, cliVars>>

NextFlatten == Flatten \/ FlattenOther \/ Rebuild

SpecFlatten == InitFlatten /\ [][NextFlatten]_vars

\* ------------------------------------------------------------ TracingAdapter
\* isinstance(x, torch.Tensor)
IsTensor(x) == x.kind = "leaf" /\ x.tensor

\* all(isinstance(x, torch.Tensor) for x in flat)
AllTensors(flat) == \A i \in 1..Len(flat) : IsTensor(flat[i])

\* a faulty filter: the tensors kept, in the reverse order
FilterTensors_reversed(flat) ==
    LET kept == SelectSeq(flat, IsTensor)
    IN [i \in 1..Len(kept) |-> kept[Len(kept) + 1 - i]]

\* tuple([x for x in flat if isinstance(x, torch.Tensor)])
FilterTensors(flat) == SelectSeq(flat, IsTensor)

\* x is y
IsSame(x, y) == x.id = y.id

\* a faulty check: the arguments compared by value (==), not by identity
ValidOwnInputs_byvalue(args, own) ==
    /\ Len(args) = Len(own)
    /\ \A i \in 1..Len(args) : args[i].tensor = own[i].tensor /\ args[i].val = own[i].val

\* not (len(args) != len(self.flattened_inputs)
\*      or any(x is not y for x, y in zip(args, self.flattened_inputs)))
ValidOwnInputs(args, own) ==
    /\ Len(args) = Len(own)
    /\ \A i \in 1..Len(args) : IsSame(args[i], own[i])

\* inputs = (inputs,) unless inputs is a tuple
WrapInputs(inp) == IF inp.kind = "tuple" THEN inp ELSE PyTuple(<<inp>>)

\* a faulty constructor: inputs_schema kept when leaves were filtered out
ConstructOutcome_keepschema(inp, allow) ==
    LET wrapped == WrapInputs(inp)
        flat == flatten_to_tuple(wrapped)
    IN IF AllTensors(flat[1])
       THEN [raised |-> FALSE, flattened_inputs |-> flat[1], inputs_schema |-> flat[2]]
       ELSE IF allow
       THEN [raised |-> FALSE, flattened_inputs |-> FilterTensors(flat[1]),
             inputs_schema |-> flat[2]]
       ELSE [raised |-> TRUE, flattened_inputs |-> flat[1], inputs_schema |-> flat[2]]

\* TracingAdapter.__init__ from the flattening on: the attributes it leaves
\* and whether it raised ValueError
ConstructOutcome(inp, allow) ==
    LET wrapped == WrapInputs(inp)
        flat == flatten_to_tuple(wrapped)
    IN IF AllTensors(flat[1])
       THEN [raised |-> FALSE, flattened_inputs |-> flat[1], inputs_schema |-> flat[2]]
       ELSE IF allow
       THEN [raised |-> FALSE, flattened_inputs |-> FilterTensors(flat[1]),
             inputs_schema |-> NoneValue]
       ELSE [raised |-> TRUE, flattened_inputs |-> flat[1], inputs_schema |-> flat[2]]

\* TracingAdapter(model, inp, allow_non_tensor=allow)
Construct(inp, allow) ==
    /\ pc = "new"
    /\ ctor_arg' = inp
    /\ inputs' = WrapInputs(inp)
    /\ allow_non_tensor' = allow
    /\ flattened_inputs' = ConstructOutcome(inp, allow).flattened_inputs
    /\ inputs_schema' = ConstructOutcome(inp, allow).inputs_schema
    /\ pc' = IF ConstructOutcome(inp, allow).raised THEN "ctor_raised" ELSE "ready"
    /\ UNCHANGED <<outputs_schema, call, first_schema, flattenVars, cliVars>>

\* forward, lines 266-277: the inputs in their original format, or the
\* exception raised before the model is called
InputsOrigFormat(args) ==
    IF inputs_schema # NoneValue THEN SchemaCall(inputs_schema, args)
    ELSE IF ~ValidOwnInputs(args, flattened_inputs) THEN Raise("ValueError")
    ELSE inputs

Returned(value) == [kind |-> "return", value |-> value]

\* forward, lines 280-302, for the outputs the model returned:
\* <<what forward returns or raises, the new outputs_schema>>
OutputsOutcome(outs, allow, oschema) ==
    LET flat == flatten_to_tuple(outs)
        tensors == FilterTensors(flat[1])
    IN IF Len(tensors) < Len(flat[1])
       THEN IF allow THEN <<Returned(tensors), NoneValue>>
            ELSE <<Raise("ValueError"), oschema>>
       ELSE IF oschema = NoneValue THEN <<Returned(flat[1]), flat[2]>>
       ELSE IF oschema = flat[2] THEN <<Returned(flat[1]), oschema>>
       ELSE <<Raise("AssertionError"), oschema>>

\* the model raised instead of returning
ModelRaises == Raise("RuntimeError")

\* adapter.forward(*args), the model returning outs (or raising)
Forward(args, outs) ==
    /\ pc = "ready"
    /\ LET orig == InputsOrigFormat(args)
           out == OutputsOutcome(outs, allow_non_tensor, outputs_schema)
       IN IF IsRaise(orig)
          THEN /\ call' = [args |-> args, called |-> FALSE, model_args |-> <<>>,
                           outputs |-> NoneValue,
                           result |-> orig]
               /\ UNCHANGED <<outputs_schema, first_schema>>
          ELSE IF IsRaise(outs)
          THEN /\ call' = [args |-> args, called |-> TRUE, model_args |-> orig.items,
                           outputs |-> outs,
                           result |-> outs]
               /\ UNCHANGED <<outputs_schema, first_schema>>
          ELSE /\ call' = [args |-> args, called |-> TRUE, model_args |-> orig.items,
                           outputs |-> outs,
                           result |-> out[1]]
               /\ outputs_schema' = out[2]
               /\ first_schema' =
                      IF /\ first_schema = NoneValue
                         /\ out[1].kind = "return"
                         /\ AllTensors(flatten_to_tuple(outs)[1])
                      THEN flatten_to_tuple(outs)[2]
                      ELSE first_schema
    /\ UNCHANGED <<pc, ctor_arg, inputs, allow_non_tensor, flattened_inputs,
                   inputs_schema, flattenVars, cliVars>>

\* every sequence of distinct elements of S
DistinctSeqs(S) ==
    UNION {{q \in [1..k -> S] : \A i, j \in 1..k : i # j => q[i] # q[j]} :
           k \in 0..Cardinality(S)}

\* the leaves, and the lists, tuples and dicts of distinct leaves
FlatObjs ==
    LeafValues
    \cup {PyList(q) : q \in DistinctSeqs(LeafValues)}
    \cup {PyTuple(q) : q \in DistinctSeqs(LeafValues)}
    \cup UNION {{PyDict(ks, q) : q \in {d \in DistinctSeqs(LeafValues) :
                                            Len(d) = Len(ks)}} :
                ks \in DistinctSeqs(DictKeys)}

\* a few outputs: a tensor, a tuple with a str in it, a list of a tensor
FewOutputs == {Tensor1, PyTuple(<<Tensor1, Str1>>), PyList(<<Tensor2>>)}

\* a few inputs: a tensor, two tensors around a str, no argument at all
FewInputs == {Tensor1, PyTuple(<<Tensor1, Str1, Tensor2>>), PyTuple(<<>>)}

InitAdapter ==
    /\ pc = "new"
    /\ AdapterIdle
    /\ FlattenIdle
    /\ CliIdle

\* the construction of an adapter, for every input
NextConstruct ==
    \E inp \in FlatObjs \cup InputObjs, allow \in BOOLEAN : Construct(inp, allow)

SpecConstruct == InitAdapter /\ [][NextConstruct]_vars

\* adapters of a few inputs, called with every argument list
NextForwardArgs ==
    \/ \E inp \in FewInputs, allow \in BOOLEAN : Construct(inp, allow)
    \/ \E args \in DistinctSeqs(LeafValues),
          outs \in FewOutputs \cup {ModelRaises} : Forward(args, outs)

SpecForwardArgs == InitAdapter /\ [][NextForwardArgs]_vars

\* adapters of a few inputs, around models of every output
NextForwardOutputs ==
    \/ \E inp \in FewInputs, allow \in BOOLEAN : Construct(inp, allow)
    \/ \E args \in {flattened_inputs, <<Tensor2>>},
          outs \in FlatObjs \cup {ModelRaises} : Forward(args, outs)

SpecForwardOutputs == InitAdapter /\ [][NextForwardOutputs]_vars

\* ------------------------------------------------------------- analysis.py
TaskNames == {"flop", "activation", "parameter", "structure"}

\* a faulty table: parameter and structure exchanged
TaskFunction_shifted(task) ==
    IF task = "flop" THEN "do_flop"
    ELSE IF task = "activation" THEN "do_activation"
    ELSE IF task = "parameter" THEN "do_structure"
    ELSE "do_parameter"

\* the dict of lines 126-131, indexed by the task's name
TaskFunction(task) ==
    IF task = "flop" THEN "do_flop"
    ELSE IF task = "activation" THEN "do_activation"
    ELSE IF task = "parameter" THEN "do_parameter"
    ELSE "do_structure"

\* do_flop reads flops after its loop over args.num_inputs inputs: with no
\* input the name is unbound and the function cannot return
CanReturn(func, num_inputs) == func = "do_flop" => num_inputs > 0

\* the command lines argparse accepts: one task or more, each among choices
CommandLines ==
    [tasks : UNION {[1..n -> TaskNames] : n \in 1..MaxTasks},
     ckpt : {"None", "ckpt.pth"},
     config_ckpt : {"config.pth", "override.pth"},
     num_inputs : {0, 100},
     eval_only : BOOLEAN,
     num_gpus : {1, 2}]

InitCli ==
    /\ pc = "main"
    /\ cli_args \in CommandLines
    /\ cfg_ckpt = "unset"
    /\ task_idx = 0
    /\ ran = <<>>
    /\ AdapterIdle
    /\ FlattenIdle

\* assert not args.eval_only; assert args.num_gpus == 1
CheckArgs ==
    /\ pc = "main"
    /\ pc' = IF cli_args.eval_only \/ cli_args.num_gpus # 1 THEN "failed" ELSE "setup"
    /\ UNCHANGED <<cli_args, cfg_ckpt, task_idx, ran, flattenVars, adapterVars>>

\* cfg = setup(args): the config file with the overrides applied
Setup ==
    /\ pc = "setup"
    /\ cfg_ckpt' = cli_args.config_ckpt
    /\ pc' = "set_ckpt"
    /\ UNCHANGED <<cli_args, task_idx, ran, flattenVars, adapterVars>>

\* a faulty assignment: the config's checkpoint kept when --ckpt is absent
SetCkpt_unlessgiven ==
    /\ pc = "set_ckpt"
    /\ cfg_ckpt' = IF cli_args.ckpt = "None" THEN cfg_ckpt ELSE cli_args.ckpt
    /\ task_idx' = 1
    /\ pc' = "loop"
    /\ UNCHANGED <<cli_args, ran, flattenVars, adapterVars>>

\* cfg.train.init_checkpoint = args.ckpt
SetCkpt ==
    /\ pc = "set_ckpt"
    /\ cfg_ckpt' = cli_args.ckpt
    /\ task_idx' = 1
    /\ pc' = "loop"
    /\ UNCHANGED <<cli_args, ran, flattenVars, adapterVars>>

\* the loop calls the function of the next task, with cfg
StartTask ==
    /\ pc = "loop"
    /\ task_idx <= Len(cli_args.tasks)
    /\ ran' = Append(ran, [func |-> TaskFunction(cli_args.tasks[task_idx]),
                           ckpt |-> cfg_ckpt, status |-> "running"])
    /\ pc' = "in_task"
    /\ UNCHANGED <<cli_args, cfg_ckpt, task_idx, flattenVars, adapterVars>>

\* the task function returns, and the loop goes on
TaskReturns ==
    /\ pc = "in_task"
    /\ CanReturn(ran[Len(ran)].func, cli_args.num_inputs)
    /\ ran' = [ran EXCEPT ![Len(ran)].status = "returned"]
    /\ task_idx' = task_idx + 1
    /\ pc' = "loop"
    /\ UNCHANGED <<cli_args, cfg_ckpt, flattenVars, adapterVars>>

\* the task function raises: nothing catches it, the script ends
TaskRaises ==
    /\ pc = "in_task"
    /\ ran' = [ran EXCEPT ![Len(ran)].status = "raised"]
    /\ pc' = "failed"
    /\ UNCHANGED <<cli_args, cfg_ckpt, task_idx, flattenVars, adapterVars>>

\* the loop is over
Finish ==
    /\ pc = "loop"
    /\ task_idx > Len(cli_args.tasks)
    /\ pc' = "done"
    /\ UNCHANGED <<cli_args, cfg_ckpt, task_idx, ran, flattenVars, adapterVars>>

NextCli ==
    CheckArgs \/ Setup \/ SetCkpt \/ StartTask \/ TaskReturns \/ TaskRaises \/ Finish

SpecCli == InitCli /\ [][NextCli]_vars

\* ------------------------------------------------------------ flatten claims
\* Python's ==: lists and tuples element by element and of the same type,
\* dicts by their key/value pairs whatever the insertion order
RECURSIVE PyEq(_, _)
PyEq(a, b) ==
    /\ a.kind = b.kind
    /\ IF a.kind = "leaf" THEN a.tensor = b.tensor /\ a.val = b.val
       ELSE IF a.kind \in {"list", "tuple"}
       THEN /\ Len(a.items) = Len(b.items)
            /\ \A i \in 1..Len(a.items) : PyEq(a.items[i], b.items[i])
       ELSE IF a.kind = "dict"
       THEN /\ Len(a.keys) = Len(b.keys)
            /\ {a.keys[i] : i \in 1..Len(a.keys)} = {b.keys[i] : i \in 1..Len(b.keys)}
            /\ \A i \in 1..Len(a.keys) : PyEq(a.items[i], DictGet(b, a.keys[i]))
       ELSE FALSE

\* the keys in ascending order: the arrangement in which each key is smaller
\* than the next
AscendingKeys(keys) ==
    CHOOSE s \in [1..Len(keys) -> {keys[i] : i \in 1..Len(keys)}] :
        /\ {s[i] : i \in 1..Len(keys)} = {keys[i] : i \in 1..Len(keys)}
        /\ \A i \in 1..(Len(keys) - 1) : StrLess(s[i], s[i + 1])

\* the leaves of an object, depth first and left to right, a dict's entries
\* by ascending key
RECURSIVE LeavesInOrder(_), LeavesOfSeq(_)
LeavesOfSeq(items) ==
    IF Len(items) = 0 THEN <<>>
    ELSE LeavesInOrder(Head(items)) \o LeavesOfSeq(Tail(items))

LeavesInOrder(o) ==
    IF o.kind = "leaf" THEN <<o>>
    ELSE IF o.kind \in {"list", "tuple"} THEN LeavesOfSeq(o.items)
    ELSE LET ks == AscendingKeys(o.keys)
         IN LeavesOfSeq([i \in 1..Len(ks) |-> DictGet(o, ks[i])])

\* C1: round trip. Once schema(res) has been computed for (res, schema) =
\* flatten_to_tuple(obj), it raised nothing and equals obj, with the same
\* container kind (list, tuple, dict) at every level and the identical leaf
\* objects.
C1_RoundTrip ==
    pc = "rebuilt" =>
        /\ ~IsRaise(rebuilt)
        /\ PyEq(rebuilt, obj)
        /\ LeavesInOrder(rebuilt) = LeavesInOrder(obj)

\* a list holding an empty tuple and a dict has been flattened and rebuilt
C1_Witness ==
    /\ pc = "rebuilt"
    /\ obj = PyList(<<PyTuple(<<>>), PyDict(<<KeyB>>, <<Tensor1>>)>>)
    /\ res = <<Tensor1>>

\* C2: the flattened tuple is the sequence of the object's leaves, depth
\* first and left to right, with a dict's entries in ascending key order; and
\* the same object with its dicts filled in another insertion order flattens
\* to the same tuple and an equal schema.
C2_LeafOrder ==
    pc \in {"flattened2", "rebuilt"} =>
        /\ res = LeavesInOrder(obj)
        /\ PyEq(obj, obj2) => (res2 = res /\ schema2 = schema)

\* a dict inserted in descending key order ("b" before "ab"), and the same pairs inserted in
\* another order, have both been flattened
C2_Witness ==
    /\ pc = "flattened2"
    /\ obj = PyDict(<<KeyB, KeyAB>>, <<Tensor1, PyList(<<Str1>>)>>)
    /\ obj2 = PyDict(<<KeyAB, KeyB>>, <<PyList(<<Str1>>), Tensor1>>)
    /\ res = <<Str1, Tensor1>>

\* ------------------------------------------------------------ adapter claims
\* the tensors among a sequence of leaves, in their order
RECURSIVE TensorLeaves(_)
TensorLeaves(leaves) ==
    IF Len(leaves) = 0 THEN <<>>
    ELSE IF Head(leaves).tensor THEN <<Head(leaves)>> \o TensorLeaves(Tail(leaves))
    ELSE TensorLeaves(Tail(leaves))

OnlyTensors(leaves) == \A i \in 1..Len(leaves) : leaves[i].tensor

\* C3: once the constructor has run on inputs (made a tuple if they were
\* not one): with leaves that are all tensors the adapter is constructed,
\* flattened_inputs holds all the leaves and inputs_schema is the schema of
\* the inputs, whatever allow_non_tensor is; with a leaf that is no tensor,
\* the constructor raised if allow_non_tensor is False, and otherwise
\* flattened_inputs holds the tensor leaves in their order and inputs_schema
\* is None. A constructed adapter's flattened_inputs holds tensors only.
C3_Construct ==
    pc \in {"ready", "ctor_raised"} =>
        LET leaves == LeavesInOrder(inputs)
        IN /\ inputs = (IF ctor_arg.kind = "tuple" THEN ctor_arg
                                                   ELSE PyTuple(<<ctor_arg>>))
           /\ OnlyTensors(leaves) =>
                  /\ pc = "ready"
                  /\ flattened_inputs = leaves
                  /\ inputs_schema = flatten_to_tuple(inputs)[2]
                  /\ PyEq(SchemaCall(inputs_schema, flattened_inputs), inputs)
           /\ (~OnlyTensors(leaves) /\ ~allow_non_tensor) => pc = "ctor_raised"
           /\ (~OnlyTensors(leaves) /\ allow_non_tensor) =>
                  /\ pc = "ready"
                  /\ flattened_inputs = TensorLeaves(leaves)
                  /\ inputs_schema = NoneValue
           /\ pc = "ready" => OnlyTensors(flattened_inputs)

\* an adapter constructed with allow_non_tensor on two tensors around a str
C3_Witness ==
    /\ pc = "ready"
    /\ allow_non_tensor
    /\ ctor_arg = PyList(<<Tensor2, Str1, Tensor1>>)
    /\ flattened_inputs = <<Tensor2, Tensor1>>
    /\ inputs_schema = NoneValue

\* C4: on an adapter without inputs_schema, a call of forward whose
\* arguments are the adapter's own flattened_inputs (as many, and the
\* identical object at each position) calls the model on the inputs given to
\* the constructor; any other call raises ValueError and does not call the
\* model.
C4_OwnInputsOnly ==
    (pc = "ready" /\ inputs_schema = NoneValue /\ call # NoneValue) =>
        IF /\ Len(call.args) = Len(flattened_inputs)
           /\ \A i \in 1..Len(call.args) : call.args[i].id = flattened_inputs[i].id
        THEN /\ call.called
             /\ PyTuple(call.model_args) = inputs
             /\ inputs = (IF ctor_arg.kind = "tuple" THEN ctor_arg
                                                     ELSE PyTuple(<<ctor_arg>>))
        ELSE /\ ~call.called
             /\ call.result = Raise("ValueError")

\* the adapter's own two tensors, in the other order, have been refused
C4_Witness ==
    /\ pc = "ready"
    /\ inputs_schema = NoneValue
    /\ flattened_inputs = <<Tensor1, Tensor2>>
    /\ call # NoneValue
    /\ call.args = <<Tensor2, Tensor1>>
    /\ call.result = Raise("ValueError")

\* a step of forward
ForwardStep ==
    /\ pc = "ready"
    /\ pc' = "ready"
    /\ <<call, outputs_schema, first_schema>>' # <<call, outputs_schema, first_schema>>

\* C5: over every sequence of calls of forward on one adapter, a call that
\* returns with outputs of tensors only has outputs of the schema recorded by
\* the first such call, and a call whose outputs of tensors only have another
\* structure fails with AssertionError and leaves outputs_schema unchanged.
C5_SameStructure ==
    [][(/\ ForwardStep
        /\ call'.called
        /\ ~IsRaise(call'.outputs)
        /\ OnlyTensors(LeavesInOrder(call'.outputs)))
       => LET z == flatten_to_tuple(call'.outputs)[2]
          IN /\ call'.result.kind = "return" => z = first_schema'
             /\ (first_schema # NoneValue /\ z # first_schema) =>
                    /\ call'.result = Raise("AssertionError")
                    /\ outputs_schema' = outputs_schema]_vars

\* C6: when the model has returned, a tuple forward returns holds tensors
\* only; with a leaf that is no tensor among the outputs, forward raises
\* ValueError if allow_non_tensor is False, and otherwise returns the tensor
\* leaves in their order and sets outputs_schema to None.
C6_TensorsOnly ==
    (pc = "ready" /\ call # NoneValue) =>
        /\ call.result.kind = "return" => OnlyTensors(call.result.value)
        /\ (call.called /\ ~IsRaise(call.outputs)) =>
              LET leaves == LeavesInOrder(call.outputs)
              IN /\ (~OnlyTensors(leaves) /\ ~allow_non_tensor) =>
                        call.result = Raise("ValueError")
                 /\ (~OnlyTensors(leaves) /\ allow_non_tensor) =>
                        /\ call.result = Returned(TensorLeaves(leaves))
                        /\ outputs_schema = NoneValue

\* a model that returned two tensors around a str, behind an adapter that
\* allows it
C6_Witness ==
    /\ pc = "ready"
    /\ allow_non_tensor
    /\ call # NoneValue
    /\ call.called
    /\ call.outputs = PyList(<<Tensor2, Str1, Tensor1>>)
    /\ call.result = Returned(<<Tensor2, Tensor1>>)
    /\ first_schema # NoneValue
    /\ outputs_schema = NoneValue

====
